---------------------------- MODULE Spec2Model ----------------------------
(***************************************************************************)
(* Model of assign(data) of src/assignment.py (the base variant) and of    *)
(* src/external_assign.py (the section variant).                           *)
(*                                                                         *)
(* assign validates the input document, builds a 0/1 integer program,      *)
(* hands it to the external solver and shapes the solver's answer into the *)
(* output document.  The solver is external: it is modelled by what it may *)
(* answer, namely a terminal status together with, for an accepted status, *)
(* a point of the feasible set (status SUBOPTIMAL) or a point of the       *)
(* feasible set that maximises the objective (status OPTIMAL).             *)
(*                                                                         *)
(* JSON objects are functions from their keys; a key that is absent from   *)
(* an object is absent from the function's domain.  JSON null is NONE.     *)
(***************************************************************************)
EXTENDS Integers, Sequences, FiniteSets, TLC

VARIABLES
    pc,       \* "call": assign was called and has not run; "returned"; "raised"
    variant,  \* which file's assign runs: "assignment" or "external_assign"
    data,     \* the input document
    built,    \* TRUE once solver = gp.Model(...) was executed
    status,   \* solver.Status
    sol,      \* the attributes the solver holds after optimize(): X of x, u, w and ObjVal
    readX,    \* TRUE once some variable's .X was read
    result,   \* the returned document
    error     \* the exception raised

vars == <<pc, variant, data, built, status, sol, readX, result, error>>

-----------------------------------------------------------------------------
(* Bounds of the model. *)

MaxCap == 2
MaxMinTeam == 2
MaxRank == 5

ProjectIds == {"p1", "p2"}
SectionIds == {"A", "B"}

NONE == "None"

-----------------------------------------------------------------------------
(* Python helpers. *)

\* dict.get(key, default)
Get(obj, key, default) == IF key \in DOMAIN obj THEN obj[key] ELSE default

RECURSIVE SumSeq(_)
\* sum() / gp.quicksum() of a generated list: one term per list entry
SumSeq(s) == IF s = <<>> THEN 0 ELSE Head(s) + SumSeq(Tail(s))

\* max() of a non-empty collection of integers
MaxOf(S) == CHOOSE m \in S : \A k \in S : k <= m

Range(s) == {s[i] : i \in DOMAIN s}

SeqsUpTo(S, n) == UNION {[1..k -> S] : k \in 0..n}

-----------------------------------------------------------------------------
(* gurobipy status codes referred to by the code. *)

GRB_LOADED == 1
GRB_OPTIMAL == 2
GRB_INFEASIBLE == 3
GRB_TIME_LIMIT == 9
GRB_SUBOPTIMAL == 13

AcceptedStatuses == {GRB_OPTIMAL, GRB_SUBOPTIMAL}
\* the other terminal statuses the solve can end in (two of them stand for all)
OtherStatuses == {GRB_INFEASIBLE, GRB_TIME_LIMIT}

-----------------------------------------------------------------------------
(* The input model builder: lines 9-36 (assignment.py 9-35). *)

RequiredKeys == {"students", "capacities", "options"}

\* line 7: some required top-level key is missing
MissingKey(d) == \E k \in RequiredKeys : k \notin DOMAIN d

\* line 12
minimum_capacity(d) == Get(d["options"], "minTeamSize", 0)

\* external_assign.py line 13
max_sections_default_two(d) == Get(d["options"], "maxSectionsPerTeam", 2)
max_sections_per_team(d) == Get(d["options"], "maxSectionsPerTeam", 1)

\* line 16: the list of prefIds in roster order
student_ids(d) == [i \in 1..Len(d["students"]) |-> d["students"][i]["prefId"]]

\* lines 24-28: the (project_id, project_name, rank) tuples of one student
ChoiceTuples(s) ==
    LET cs == Get(s, "choices", <<>>)
    IN  [i \in 1..Len(cs) |-> <<cs[i]["projectId"], cs[i]["projectName"], cs[i]["rank"]>>]

\* lines 31-35: primary section, if not None, then the additional sections
SectionList(s) ==
    (IF Get(s, "sectionId", NONE) # NONE THEN <<s["sectionId"]>> ELSE <<>>)
    \o (IF "sectionIds" \in DOMAIN s THEN s["sectionIds"] ELSE <<>>)

\* the student entry a dict keyed by prefId ends up holding: the last one written
LastWith(d, sid) ==
    LET I == {i \in 1..Len(d["students"]) : d["students"][i]["prefId"] = sid}
    IN  d["students"][MaxOf(I)]

\* lines 18-36: the state the builder hands to the model construction
Builder(d) ==
    LET ids == student_ids(d)
    IN  [ student_ids      |-> ids,
          projects         |-> DOMAIN d["capacities"],
          capacities       |-> d["capacities"],
          minimum_capacity |-> minimum_capacity(d),
          max_sections_per_team |-> max_sections_per_team(d),
          student_choices  |-> [sid \in Range(ids) |-> ChoiceTuples(LastWith(d, sid))],
          student_sections |-> [sid \in Range(ids) |-> SectionList(LastWith(d, sid))] ]

\* external_assign.py line 38: the section universe
sections(b) == UNION {Range(b.student_sections[sid]) : sid \in DOMAIN b.student_sections}

\* external_assign.py lines 58 and 93; assignment.py has no section constraints
UseSections(v, b) == v = "external_assign" /\ sections(b) # {}

-----------------------------------------------------------------------------
(* The decision variables: lines 46-71 (assignment.py 43-52).  A variable   *)
(* dictionary is keyed, so a key written twice is one entry.                *)

\* lines 47-49: one x per (student, ranked project)
XKeys(b) ==
    UNION { {<<sid, b.student_choices[sid][i][1]>> : i \in 1..Len(b.student_choices[sid])}
            : sid \in Range(b.student_ids) }

\* lines 61-65: one w per (student, ranked project, eligible section)
WKeys(b) ==
    UNION { {<<k[1], k[2], sec>> : sec \in Range(b.student_sections[k[1]])} : k \in XKeys(b) }

\* lines 69-71: one z per (project, section of the universe)
ZKeys(b) == b.projects \X sections(b)

Binary == {0, 1}

\* lines 9-73: what the constraints are built from: the builder's state, the
\* section universe and the keys of the variable dictionaries x, w and z
\* (w and z exist only when sections are used)
ModelOf(v, d) ==
    LET b0 == Builder(d)
        us == UseSections(v, b0)
    IN  b0 @@ [ sections     |-> sections(b0),
                use_sections |-> us,
                xkeys        |-> XKeys(b0),
                wkeys        |-> IF us THEN WKeys(b0) ELSE {},
                zkeys        |-> IF us THEN ZKeys(b0) ELSE {} ]

-----------------------------------------------------------------------------
(* The constraints: lines 77-116 (assignment.py 58-71).  Every sum has one  *)
(* term per entry of the list it is generated from.                         *)

\* line 78, assign_{student_id}
AssignConstr(b, x, u, sid) ==
    LET ch == b.student_choices[sid]
    IN  SumSeq([i \in 1..Len(ch) |-> x[<<sid, ch[i][1]>>]]) + u[sid] = 1

\* lines 82 and 89: the number of students placed in a project
Occupancy(b, x, p) ==
    SumSeq([i \in 1..Len(b.student_ids) |->
              IF <<b.student_ids[i], p>> \in DOMAIN x THEN x[<<b.student_ids[i], p>>] ELSE 0])

\* lines 82-83, max_capacity_{project_id}
MaxCapacityBugM(b, x, y, p) == Occupancy(b, x, p) <= Len(b.student_ids) * y[p]
MaxCapacityConstr(b, x, y, p) == Occupancy(b, x, p) <= b.capacities[p] * y[p]

\* lines 85-88
min_capacity_strict(b, p) ==
    IF b.minimum_capacity > b.capacities[p] THEN 0 ELSE b.minimum_capacity
min_capacity(b, p) ==
    IF b.minimum_capacity >= b.capacities[p] THEN 0 ELSE b.minimum_capacity

\* lines 89-90, min_capacity_{project_id}
MinCapacityConstr(b, x, y, p) == Occupancy(b, x, p) >= min_capacity(b, p) * y[p]

\* line 98, link_x_w_{student_id}_{project_id}
LinkXWSkipsNoSection(b, x, w, sid, pid) ==
    LET secs == b.student_sections[sid]
    IN  secs # <<>> => SumSeq([j \in 1..Len(secs) |-> w[<<sid, pid, secs[j]>>]]) = x[<<sid, pid>>]
LinkXW(b, x, w, sid, pid) ==
    LET secs == b.student_sections[sid]
    IN  SumSeq([j \in 1..Len(secs) |-> w[<<sid, pid, secs[j]>>]]) = x[<<sid, pid>>]

\* line 105
students_in_sec_and_want_project(b, w, p, sec) ==
    SelectSeq(b.student_ids, LAMBDA sid : <<sid, p, sec>> \in DOMAIN w)

\* lines 107-112, no_students_z / link_z / z_y
LinkZ(b, w, z, y, p, sec) ==
    LET l == students_in_sec_and_want_project(b, w, p, sec)
    IN  IF Len(l) = 0
        THEN z[<<p, sec>>] = 0
        ELSE /\ SumSeq([i \in 1..Len(l) |-> w[<<l[i], p, sec>>]]) <= b.capacities[p] * z[<<p, sec>>]
             /\ z[<<p, sec>>] <= y[p]

\* line 116, max_sections_{project_id}; z is binary, so the sum counts the ones
MaxSectionsConstr(b, z, y, p) ==
    Cardinality({sec \in b.sections : z[<<p, sec>>] = 1}) <= b.max_sections_per_team * y[p]

-----------------------------------------------------------------------------
(* The objective: lines 121-132 (assignment.py 76-87).                      *)

\* lines 121-125
preference_score(b, x) ==
    SumSeq([i \in 1..Len(b.student_ids) |->
        LET sid == b.student_ids[i]
            ch  == b.student_choices[sid]
        IN  SumSeq([j \in 1..Len(ch) |-> x[<<sid, ch[j][1]>>] * (Len(ch) - ch[j][3] + 1)])])

\* line 128; max() of an empty sequence raises ValueError
max_weight(b) == MaxOf({Len(b.student_choices[sid]) : sid \in Range(b.student_ids)})

\* line 129
unassigned_penalty(b) == Len(b.student_ids) * max_weight(b) + 1

\* line 130
penalty(b, u) == SumSeq([i \in 1..Len(b.student_ids) |-> unassigned_penalty(b) * u[b.student_ids[i]]])

\* line 132
Objective(b, x, u) == preference_score(b, x) - penalty(b, u)

-----------------------------------------------------------------------------
(* The feasible set of the integer program, and its optima.                 *)

\* the values of w and z when the section variables are not created
NoVars == <<>>

\* The feasible set of the constraints of lines 77-116, projected on
\* (x, u, w), the variables whose values the program or a property reads: a
\* point belongs to it when some y and z complete it to an assignment that
\* satisfies every constraint.  The section constraints exist only when
\* sections are used.
FeasibleSolutions(b) ==
    LET us == b.use_sections
        XU == {xu \in [x : [b.xkeys -> Binary], u : [Range(b.student_ids) -> Binary]] :
                 \A i \in 1..Len(b.student_ids) : AssignConstr(b, xu.x, xu.u, b.student_ids[i])}
        Y(x) == {y \in [b.projects -> Binary] :
                 \A p \in b.projects : MaxCapacityConstr(b, x, y, p) /\ MinCapacityConstr(b, x, y, p)}
        W(x) == IF us
                THEN {w \in [b.wkeys -> Binary] : \A k \in b.xkeys : LinkXW(b, x, w, k[1], k[2])}
                ELSE {NoVars}
        ZOk(y, w) == IF us
                THEN \E z \in [b.zkeys -> Binary] :
                        /\ \A p \in b.projects : \A sec \in b.sections : LinkZ(b, w, z, y, p, sec)
                        /\ \A p \in b.projects : MaxSectionsConstr(b, z, y, p)
                ELSE TRUE
    IN  UNION { LET Yx == Y(xu.x)
                IN  {[x |-> xu.x, u |-> xu.u, w |-> w] :
                       w \in {w \in W(xu.x) : \E y \in Yx : ZOk(y, w)}} : xu \in XU }

\* solver.ObjVal of a solution
WithObjVal(b, s) == [x |-> s.x, u |-> s.u, w |-> s.w, ObjVal |-> Objective(b, s.x, s.u)]

\* what optimize() may leave behind with status SUBOPTIMAL: a feasible point
SuboptimalOutcomes(b) == {WithObjVal(b, s) : s \in FeasibleSolutions(b)}

\* what optimize() may leave behind with status OPTIMAL: a maximiser
OptimalAmong(S) == {s \in S : \A t \in S : t.ObjVal <= s.ObjVal}
OptimalOutcomes(b) == OptimalAmong(SuboptimalOutcomes(b))

-----------------------------------------------------------------------------
(* Result extraction: lines 137-185 (assignment.py 92-140).                 *)

None == <<>>
Some(val) == <<val>>

\* the reason of the f-string of line 144: its text and the interpolated status
StatusReason(st) == [text |-> "ILP infeasible or no solution (status )", status |-> Some(st)]
NoCapacityReason == [text |-> "No available capacity for ranked choices", status |-> None]
\* line 183 (assignment.py line 138 words it differently)
InconsistentReason(v) ==
    [text |-> IF v = "external_assign"
              THEN "Inconsistent assignment. Not assigned to a project but not explicitly marked unassigned."
              ELSE "Inconsistent assignment. Not assigned but not explicitly marked unassigned.",
     status |-> None]

UnassignedEntry(student, reason) ==
    [prefId |-> student["prefId"], buid |-> student["buid"],
     studentName |-> student["studentName"], reason |-> reason]

AssignedEntry(student, c) ==
    [prefId |-> student["prefId"], buid |-> student["buid"],
     studentName |-> student["studentName"],
     projectId |-> c[1], projectName |-> c[2], rank |-> c[3]]

\* lines 139-146: every student unassigned, in roster order, no totalCost
FailureResultNoStatus(d, st) ==
    [assigned   |-> <<>>,
     unassigned |-> [i \in 1..Len(d["students"]) |-> UnassignedEntry(d["students"][i], NoCapacityReason)],
     totalCost  |-> None]
FailureResult(d, st) ==
    [assigned   |-> <<>>,
     unassigned |-> [i \in 1..Len(d["students"]) |-> UnassignedEntry(d["students"][i], StatusReason(st))],
     totalCost  |-> None]

\* lines 157-163: the indices of the choices whose x is above the threshold;
\* the scan stops at the first
Hits(b, s, sid) ==
    {j \in 1..Len(b.student_choices[sid]) : 2 * s.x[<<sid, b.student_choices[sid][j][1]>>] > 1}

RECURSIVE ExtractFrom(_, _, _, _, _, _)
\* lines 151-183: the loop over the roster, from student i on
ExtractFrom(v, d, b, s, i, acc) ==
    IF i > Len(d["students"]) THEN acc
    ELSE LET student == d["students"][i]
             sid == student["prefId"]
             H == Hits(b, s, sid)
             next ==
               IF H # {}
               THEN [acc EXCEPT !.assigned =
                       Append(@, AssignedEntry(student, b.student_choices[sid][CHOOSE j \in H : \A k \in H : j <= k]))]
               ELSE IF 2 * s.u[sid] > 1
               THEN [acc EXCEPT !.unassigned = Append(@, UnassignedEntry(student, NoCapacityReason))]
               ELSE [acc EXCEPT !.unassigned = Append(@, UnassignedEntry(student, InconsistentReason(v)))]
         IN  ExtractFrom(v, d, b, s, i + 1, next)

\* lines 149-185
AcceptedResultSkipsUnranked(v, d, b, s) ==
    ExtractFrom(v, [d EXCEPT !["students"] = SelectSeq(@, LAMBDA st : Len(Get(st, "choices", <<>>)) > 0)],
                b, s, 1, [assigned |-> <<>>, unassigned |-> <<>>, totalCost |-> Some(s.ObjVal)])
AcceptedResult(v, d, b, s) ==
    ExtractFrom(v, d, b, s, 1, [assigned |-> <<>>, unassigned |-> <<>>, totalCost |-> Some(s.ObjVal)])

-----------------------------------------------------------------------------
(* The input documents of the model.                                        *)

ProjectName == [p \in ProjectIds |-> IF p = "p1" THEN "Project One" ELSE "Project Two"]

Ranks == {1, 2, MaxRank}

ChoiceDocs == {[projectId |-> p, projectName |-> ProjectName[p], rank |-> r] :
                 p \in ProjectIds, r \in Ranks}

\* the choice lists: up to two entries, ranks increasing along a list, as the
\* converter of src/CSV_to_JSON.py produces them; a project may be named twice
ChoiceLists ==
    {cl \in SeqsUpTo(ChoiceDocs, Cardinality(ProjectIds)) :
        \A i \in 1..Len(cl) - 1 : cl[i]["rank"] < cl[i + 1]["rank"]}

EmptyObj == <<>>

\* the section fields of a student as the converter writes them: sectionId
\* is null or a section, sectionIds is absent or holds one section
SectionFields ==
    {a @@ c : a \in {[sectionId |-> sec] : sec \in {NONE} \cup SectionIds},
              c \in {EmptyObj} \cup {[sectionIds |-> <<sec>>] : sec \in SectionIds}}

StudentBase(sid, cl) ==
    [prefId |-> sid, buid |-> sid, studentName |-> sid, choices |-> cl]

\* the student of a one-student roster
SoloStudentDocs(sid) ==
    {StudentBase(sid, cl) @@ sf : cl \in ChoiceLists, sf \in SectionFields}

\* the students of a two-student roster: the i-th choice has rank i, no
\* project is named twice and a second choice follows a first choice of p1;
\* no section key, one section, or sections A and B
PairChoiceLists ==
    {cl \in ChoiceLists : /\ \A i \in 1..Len(cl) : cl[i]["rank"] = i
                          /\ \A i, j \in 1..Len(cl) : cl[i]["projectId"] = cl[j]["projectId"] => i = j
                          /\ Len(cl) > 1 => cl[1]["projectId"] = "p1"}
PairSectionFields ==
    {EmptyObj, [sectionId |-> "A"], [sectionId |-> "B"], [sectionId |-> "A", sectionIds |-> <<"B">>]}
PairStudentDocs(sid) ==
    {StudentBase(sid, cl) @@ sf : cl \in PairChoiceLists, sf \in PairSectionFields}

\* the rosters: prefIds are unique
Rosters ==
    {<<>>}
    \cup {<<s>> : s \in SoloStudentDocs("s1")}
    \cup {<<s, t>> : s \in PairStudentDocs("s1"), t \in PairStudentDocs("s2")}

\* the capacity mapping: empty, or a capacity for each project
CapacityDocs == UNION {[K -> 0..MaxCap] : K \in {{}, ProjectIds}}

OptionDocs ==
    {a @@ c : a \in {EmptyObj} \cup {[minTeamSize |-> n] : n \in 1..MaxMinTeam},
              c \in {EmptyObj} \cup {[maxSectionsPerTeam |-> n] : n \in 1..Cardinality(SectionIds)}}

WellFormedDocs ==
    {[students |-> r, capacities |-> c, options |-> o] :
        r \in Rosters, c \in CapacityDocs, o \in OptionDocs}

Restrict(f, K) == [k \in K |-> f[k]]

\* documents with a required key missing
MalformedDocs ==
    {Restrict([students |-> <<>>, capacities |-> <<>>, options |-> <<>>], K) :
        K \in (SUBSET RequiredKeys) \ {RequiredKeys}}

Inputs == WellFormedDocs \cup MalformedDocs

Variants == {"assignment", "external_assign"}

-----------------------------------------------------------------------------
(* assign(data), one action per path through the function.                  *)

NoSol == <<>>
NoResult == <<>>

\* assign is called with a document of D
CalledWith(D) ==
    /\ pc = "call"
    /\ variant \in Variants
    /\ data \in D
    /\ built = FALSE
    /\ status = GRB_LOADED
    /\ sol = NoSol
    /\ readX = FALSE
    /\ result = NoResult
    /\ error = NONE

Init == CalledWith(Inputs)

\* lines 7-8: a required key is missing
AssignMissingKey ==
    /\ pc = "call"
    /\ MissingKey(data)
    /\ pc' = "raised"
    /\ error' = "ValueError"
    /\ UNCHANGED <<variant, data, built, status, sol, readX, result>>

\* lines 9-128: the model is built, then max() of line 128 is given no element
AssignEmptyRoster ==
    /\ pc = "call"
    /\ ~MissingKey(data)
    /\ Len(student_ids(data)) = 0
    /\ built' = TRUE
    /\ pc' = "raised"
    /\ error' = "ValueError"
    /\ UNCHANGED <<variant, data, status, sol, readX, result>>

\* lines 9-146: the solve ends in a status that is not accepted
AssignNotSolved ==
    /\ pc = "call"
    /\ ~MissingKey(data)
    /\ Len(student_ids(data)) > 0
    /\ \E st \in OtherStatuses :
          /\ status' = st
          /\ result' = FailureResult(data, st)
    /\ built' = TRUE
    /\ pc' = "returned"
    /\ UNCHANGED <<variant, data, sol, readX, error>>

\* lines 9-185: the solve ends in an accepted status and the solution is read
AssignSolved ==
    /\ pc = "call"
    /\ ~MissingKey(data)
    /\ Len(student_ids(data)) > 0
    /\ \E b \in {ModelOf(variant, data)} : \E F \in {SuboptimalOutcomes(b)} :
         \E st \in AcceptedStatuses :
           \E s \in (IF st = GRB_OPTIMAL THEN OptimalAmong(F) ELSE F) :
              /\ status' = st
              /\ sol' = s
              /\ result' = AcceptedResult(variant, data, b, s)
    /\ built' = TRUE
    /\ readX' = TRUE
    /\ pc' = "returned"
    /\ UNCHANGED <<variant, data, error>>

Next == AssignMissingKey \/ AssignEmptyRoster \/ AssignNotSolved \/ AssignSolved

Spec == Init /\ [][Next]_vars

\* The documents on which the effect of a capacity is studied: the capacity
\* mapping is not empty; maxSectionsPerTeam, when stated, differs from its
\* default; in a two-student roster every student ranks a project and has
\* no sectionIds.
CapacityStudyDocs ==
    {d \in WellFormedDocs :
        /\ DOMAIN d["capacities"] # {}
        /\ "maxSectionsPerTeam" \in DOMAIN d["options"] => d["options"]["maxSectionsPerTeam"] > 1
        /\ Len(d["students"]) > 1 =>
              \A i \in 1..Len(d["students"]) :
                  /\ Len(d["students"][i]["choices"]) > 0
                  /\ "sectionIds" \notin DOMAIN d["students"][i]}

InitCapacityStudy == CalledWith(CapacityStudyDocs \cup MalformedDocs)

SpecCapacityStudy == InitCapacityStudy /\ [][Next]_vars

-----------------------------------------------------------------------------
(* Properties.                                                              *)

Returned == pc = "returned"
Accepted == pc = "returned" /\ status \in AcceptedStatuses

\* the number of entries of a list of the output document that name a student
Listed(list, sid) == Cardinality({i \in 1..Len(list) : list[i]["prefId"] = sid})

\* the number of entries of assigned that name a project
AssignedTo(p) == Cardinality({i \in 1..Len(result["assigned"]) : result["assigned"][i]["projectId"] = p})

UniquePrefIds(d) ==
    \A i, j \in 1..Len(d["students"]) : d["students"][i]["prefId"] = d["students"][j]["prefId"] => i = j

\* C1: whenever assign returns on a document with unique prefIds, by the
\* accepted path or by the non-optimal-status path, in either variant, every
\* student of the roster is listed exactly once across assigned and
\* unassigned together, and the two lists hold nothing else.
C1_EveryStudentListedOnce ==
    (Returned /\ UniquePrefIds(data)) =>
        /\ \A i \in 1..Len(data["students"]) :
              Listed(result["assigned"], data["students"][i]["prefId"])
                + Listed(result["unassigned"], data["students"][i]["prefId"]) = 1
        /\ Len(result["assigned"]) + Len(result["unassigned"]) = Len(data["students"])

\* an accepted solution of the section variant that splits the roster
C1_Witness ==
    /\ Accepted
    /\ variant = "external_assign"
    /\ Len(data["students"]) = 2
    /\ Len(result["assigned"]) = 1
    /\ Len(result["unassigned"]) = 1

\* C2: in every accepted solution, no project of the capacity mapping has
\* more entries of assigned naming it than its capacity (so none when the
\* capacity is 0).
C2_CapacityRespected ==
    Accepted => \A p \in DOMAIN data["capacities"] : AssignedTo(p) <= data["capacities"][p]

\* two students rank one project of capacity 1 first: one gets it
C2_Witness ==
    /\ Accepted
    /\ Len(data["students"]) = 2
    /\ \E p \in DOMAIN data["capacities"] :
          /\ data["capacities"][p] = 1
          /\ \A i \in 1..2 : /\ Len(data["students"][i]["choices"]) = 1
                             /\ data["students"][i]["choices"][1]["projectId"] = p
          /\ AssignedTo(p) = 1
    /\ Len(result["unassigned"]) = 1

\* the sections through which a project's students are placed in a solution
SectionsVia(p) == {sec \in SectionIds : \E k \in DOMAIN sol.w : k[2] = p /\ k[3] = sec /\ sol.w[k] = 1}

\* the cap the options state: maxSectionsPerTeam, 1 when the key is absent
StatedSectionCap == IF "maxSectionsPerTeam" \in DOMAIN data["options"]
                    THEN data["options"]["maxSectionsPerTeam"] ELSE 1

C7_NotSolvedAllUnassigned ==
    (status \notin AcceptedStatuses \cup {GRB_LOADED}) =>
        /\ pc = "returned"
        /\ error = NONE
        /\ result["assigned"] = <<>>
        /\ Len(result["unassigned"]) = Len(data["students"])
        /\ \A i \in 1..Len(data["students"]) :
              /\ result["unassigned"][i]["prefId"] = data["students"][i]["prefId"]
              /\ result["unassigned"][i]["reason"]["status"] = Some(status)
        /\ result["totalCost"] = None
        /\ ~readX

C7_Witness ==
    /\ pc = "returned"
    /\ status = GRB_INFEASIBLE
    /\ Len(data["students"]) = 2
    /\ Len(result["unassigned"]) = 2

\* the minimum team size the options state: minTeamSize, 0 when absent
StatedMinTeamSize == IF "minTeamSize" \in DOMAIN data["options"]
                     THEN data["options"]["minTeamSize"] ELSE 0

Min(a, c) == IF a <= c THEN a ELSE c

\* C3: in every accepted solution with minTeamSize > 0, a project of the
\* capacity mapping with an assigned student has at least
\* min(minTeamSize, capacity) assigned students, or a capacity strictly
\* below minTeamSize.
C3_MinTeamSizeRespected ==
    (Accepted /\ StatedMinTeamSize > 0) =>
        \A p \in DOMAIN data["capacities"] :
            AssignedTo(p) > 0 =>
               \/ AssignedTo(p) >= Min(StatedMinTeamSize, data["capacities"][p])
               \/ data["capacities"][p] < StatedMinTeamSize

\* C5: when the solve ends optimal and the constraint set admits a solution
\* that leaves no student unassigned, the returned solution leaves no
\* student unassigned.
C5_FullAssignmentDominates ==
    (Returned /\ status = GRB_OPTIMAL
       /\ \E s \in FeasibleSolutions(ModelOf(variant, data)) :
             \A sid \in DOMAIN s.u : s.u[sid] = 0)
    => result["unassigned"] = <<>>

\* the optimal objective value of a document with a non-empty roster
OptimalValue(v, d) == MaxOf({s.ObjVal : s \in SuboptimalOutcomes(ModelOf(v, d))})

\* the document with one project's capacity replaced
WithCapacity(d, p, c) == [d EXCEPT !["capacities"] = [@ EXCEPT ![p] = c]]

WellFormedResult ==
    /\ DOMAIN result = {"assigned", "unassigned", "totalCost"}
    /\ \A i \in 1..Len(result["assigned"]) :
          DOMAIN result["assigned"][i] =
             {"prefId", "buid", "studentName", "projectId", "projectName", "rank"}
    /\ \A i \in 1..Len(result["unassigned"]) :
          DOMAIN result["unassigned"][i] = {"prefId", "buid", "studentName", "reason"}
    /\ Len(result["totalCost"]) <= 1

\* C8: assign raises exactly when a required top-level key is missing, and
\* then before the model is built; on every other document it returns a
\* well-formed output document.
C8_RaisesIffKeyMissing ==
    pc # "call" =>
        /\ pc = "raised" <=> MissingKey(data)
        /\ pc = "raised" => ~built
        /\ pc = "returned" => WellFormedResult

\* some student's choice list names a project in two entries
HasDuplicateChoice(d) ==
    \E i \in 1..Len(d["students"]) :
        \E j, k \in 1..Len(d["students"][i]["choices"]) :
            j < k /\ d["students"][i]["choices"][j]["projectId"] = d["students"][i]["choices"][k]["projectId"]

\* the document without the later entries that name an already named project
FirstEntries(cl) ==
    SelectSeq([j \in 1..Len(cl) |-> [c |-> cl[j],
                 first |-> \A k \in 1..(j - 1) : cl[k]["projectId"] # cl[j]["projectId"]]],
              LAMBDA e : e.first)
WithoutDuplicateChoices(d) ==
    [d EXCEPT !["students"] =
        [i \in 1..Len(@) |-> [@[i] EXCEPT !["choices"] =
            [j \in 1..Len(FirstEntries(@)) |-> FirstEntries(@)[j].c]]]]

\* the placements of students the constraint set allows
FeasiblePlacements(v, d) == {s.x : s \in FeasibleSolutions(ModelOf(v, d))}

\* C9: a duplicate choice entry leaves the feasible set unchanged: the
\* placements the constraints allow are those they allow without the
\* duplicate.
C9_DuplicateChoiceKeepsFeasibleSet ==
    (Accepted /\ HasDuplicateChoice(data)) =>
        FeasiblePlacements(variant, data) = FeasiblePlacements(variant, WithoutDuplicateChoices(data))

\* some student's flattened section list repeats a section
HasRepeatedSection(d) ==
    \E i \in 1..Len(d["students"]) :
        LET secs == SectionList(d["students"][i])
        IN  \E j, k \in 1..Len(secs) : j < k /\ secs[j] = secs[k]

\* the document whose sectionIds do not repeat the primary section
WithoutRepeatedSections(d) ==
    [d EXCEPT !["students"] =
        [i \in 1..Len(@) |->
            IF "sectionIds" \in DOMAIN @[i]
            THEN [@[i] EXCEPT !["sectionIds"] =
                    SelectSeq(@, LAMBDA sec : sec # Get(d["students"][i], "sectionId", NONE))]
            ELSE @[i]]]

\* C10: in the section variant a repeated section in a student's list
\* changes nothing: the placements the constraints allow and the optimal
\* objective are those of the document without the repetition.
C10_RepeatedSectionChangesNothing ==
    (Accepted /\ variant = "external_assign" /\ HasRepeatedSection(data)) =>
        /\ FeasiblePlacements(variant, data) = FeasiblePlacements(variant, WithoutRepeatedSections(data))
        /\ OptimalValue(variant, data) = OptimalValue(variant, WithoutRepeatedSections(data))

\* the students of the roster with no sectionId and no sectionIds
Sectionless(d) == {i \in 1..Len(d["students"]) : SectionList(d["students"][i]) = <<>>}

\* C11: in the section variant, once some student of the roster declares a
\* section, every student of an accepted solution's assigned list has a
\* non-empty eligible-section list: a student with no sectionId and no
\* sectionIds has every x at 0 and is listed as unassigned, whatever the
\* capacities.
C11_SectionlessNeverAssigned ==
    (Accepted /\ variant = "external_assign" /\ sections(Builder(data)) # {}) =>
        \A i \in Sectionless(data) :
            /\ \A k \in DOMAIN sol.x : k[1] = data["students"][i]["prefId"] => sol.x[k] = 0
            /\ Listed(result["assigned"], data["students"][i]["prefId"]) = 0
            /\ Listed(result["unassigned"], data["students"][i]["prefId"]) = 1

\* the document with every student's section fields removed
WithoutSections(d) ==
    [d EXCEPT !["students"] =
        [i \in 1..Len(@) |-> Restrict(@[i], DOMAIN @[i] \ {"sectionId", "sectionIds"})]]

\* whether some optimum of a variant on a document places a student
PlacedInSomeOptimum(v, d, sid) ==
    \E s \in OptimalOutcomes(ModelOf(v, d)) : s.u[sid] = 0

\* the section variant leaves a student with no section unassigned beside a
\* student who declares one, although the ranked project has room for both,
\* while the base variant on the same document, and the section variant on
\* the document without any section, place that student
C11_Witness ==
    /\ Returned /\ status = GRB_OPTIMAL
    /\ variant = "external_assign"
    /\ Len(data["students"]) = 2
    /\ sections(Builder(data)) # {}
    /\ Len(result["assigned"]) = 1
    /\ \E i \in Sectionless(data) :
          LET sid == data["students"][i]["prefId"]
          IN  /\ Listed(result["unassigned"], sid) = 1
              /\ Len(data["students"][i]["choices"]) > 0
              /\ \A j \in 1..Len(data["students"][i]["choices"]) :
                    LET p == data["students"][i]["choices"][j]["projectId"]
                    IN  p \in DOMAIN data["capacities"] /\ data["capacities"][p] >= 2
              /\ PlacedInSomeOptimum("assignment", data, sid)
              /\ PlacedInSomeOptimum("external_assign", WithoutSections(data), sid)

=============================================================================
